---- MODULE Spec2Model ----
(***************************************************************************)
(* The speedcubing stopwatch of src/timer.js: the Time value class, the    *)
(* Timer with its periodic refresh, the spacebar handler, the solve        *)
(* history and the session statistics.                                     *)
(*                                                                         *)
(* JavaScript numbers are modelled as exact rationals [n, d] (d > 0, in    *)
(* lowest terms), strings as sequences of one-character strings, and       *)
(* `undefined` as the empty sequence (a defined value x is <<x>>).         *)
(***************************************************************************)
EXTENDS Integers, Sequences, FiniteSets, TLC

\* ---------------------------------------------------------------- bounds

\* The wall clock is observed at the instants 0, 5, ..., 5 * MaxInstant.
MaxInstant == 9
\* At most MaxRuns calls of setInterval (runs of the timer) are explored.
MaxRuns == 3
\* Time.toString is explored on 0 .. MaxMinutes whole minutes.
MaxMinutes == 11

\* ------------------------------------------------------- undefined / values

None == << >>
Some(x) == << x >>

\* ------------------------------------------------------------ JS numbers

Abs(i) == IF i < 0 THEN -i ELSE i

RECURSIVE GCD(_, _)
GCD(a, b) == IF b = 0 THEN a ELSE GCD(b, a % b)

Rat(n, d) == LET g == GCD(Abs(n), d) IN [n |-> n \div g, d |-> d \div g]

Num(i) == [n |-> i, d |-> 1]

NumAdd(a, b) == Rat(a.n * b.d + b.n * a.d, a.d * b.d)

NumSub(a, b) == Rat(a.n * b.d - b.n * a.d, a.d * b.d)

\* a / b for b # 0
NumDiv(a, b) == IF b.n > 0 THEN Rat(a.n * b.d, a.d * b.n)
                ELSE Rat(-(a.n * b.d), a.d * (-b.n))

\* Math.floor
Floor(a) == a.n \div a.d

\* the JS remainder a % b on integers (sign of the dividend)
Rem(a, b) == IF a >= 0 THEN a % Abs(b) ELSE -((-a) % Abs(b))

\* parseInt on a number: through its decimal text, i.e. truncation toward zero
parseInt(a) == IF a.n >= 0 THEN a.n \div a.d ELSE -((-a.n) \div a.d)

\* ------------------------------------------------------------- JS strings

Digit(k) == <<"0", "1", "2", "3", "4", "5", "6", "7", "8", "9">>[k + 1]

RECURSIVE NatToString(_)
NatToString(i) == IF i < 10 THEN <<Digit(i)>>
                  ELSE NatToString(i \div 10) \o <<Digit(i % 10)>>

\* Number.prototype.toString on an integer
NumberToString(i) == IF i < 0 THEN <<"-">> \o NatToString(-i) ELSE NatToString(i)

RECURSIVE Repeat(_, _)
Repeat(ch, k) == IF k <= 0 THEN << >> ELSE <<ch>> \o Repeat(ch, k - 1)

padStart_atEnd(str, len, ch) == str \o Repeat(ch, len - Len(str))

\* String.prototype.padStart with a one-character filler
padStart(str, len, ch) == Repeat(ch, len - Len(str)) \o str

\* ------------------------------------------------------------------ Time

Time(ms) == [ms |-> ms]

toString(ms) ==
    LET minutes == Floor(NumDiv(ms, Num(60000)))
        seconds == Rem(Floor(NumDiv(ms, Num(1000))), 60)
        msPart  == Floor(NumSub(NumSub(ms, Num(minutes * 60000)), Num(seconds * 1000)))
        msStr   == padStart(NumberToString(msPart), 3, "0")
    IN  IF minutes < 1
        THEN NumberToString(seconds) \o <<".">> \o msStr
        ELSE padStart(NumberToString(minutes), 2, "0") \o <<":">>
                 \o padStart(NumberToString(seconds), 2, "0") \o <<".">> \o msStr

\* ----------------------------------------------------------------- state

VARIABLES
    now,               \* the wall clock: the instant of the latest event
    timer,             \* the Timer instance: interval, time, running, start
    intervals,         \* the browser's interval table; a handle is an index
    solves,            \* the module-level array of SolveRecord
    innerHTML,         \* text of the slots timertext, mean, besttime, median, worsttime
    historytablebody,  \* the rows appended to the history table
    stats,             \* the Time objects built by the latest updateStats()
    ret,               \* what the latest timer.toggle() call returned
    toggles,           \* number of timer.toggle() calls so far
    stops,             \* number of toggle() calls that found the timer running
    recorded,          \* the SolveRecords passed to addSolveRecord, in call order
    fmtTime,           \* a Time object on its own
    fmtText            \* its toString(), once taken

vars == <<now, timer, intervals, solves, innerHTML, historytablebody, stats,
          ret, toggles, stops, recorded, fmtTime, fmtText>>

sessionVars == <<solves, innerHTML, historytablebody, stats, recorded>>

timerVars == <<timer, intervals, ret, toggles, stops>>

fmtVars == <<fmtTime, fmtText>>

TIMER_UPDATE_INTERVAL == 10

\* the clock is sampled every 5 ms, half a refresh period
Instants == {5 * k : k \in 0 .. MaxInstant}

SlotIds == {"timertext", "mean", "besttime", "median", "worsttime"}

\* the key events delivered to document.body.onkeyup
KeyEvents == { [keyCode |-> 32, key |-> " "],
               [keyCode |-> 0,  key |-> "Spacebar"],
               [keyCode |-> 65, key |-> "a"] }

\* ----------------------------------------------------------------- Timer

TimerConstructor == [interval |-> None, time |-> None, running |-> FALSE, start |-> None]

\* setInterval(callback, delay) called at instant t: a new handle, first due at t + delay
setInterval(ivs, t, delay) == Append(ivs, [active |-> TRUE, due |-> t + delay, cleared |-> 0])

clearInterval_forgotten(ivs, handle) == ivs

\* clearInterval(handle); clearInterval(undefined) does nothing
clearInterval(ivs, handle) ==
    IF handle = None THEN ivs
    ELSE [ivs EXCEPT ![handle[1]] =
             [active |-> FALSE, due |-> @.due, cleared |-> @.cleared + 1]]

\* toggle(), timer found running (lines 93-98)
toggleOff(tm, ivs) ==
    [timer     |-> [tm EXCEPT !.running = FALSE],
     intervals |-> clearInterval(ivs, tm.interval),
     ret       |-> tm.time]

toggleOn_startNotCaptured(tm, ivs, t) ==
    [timer     |-> [tm EXCEPT !.running = TRUE, !.interval = Some(Len(ivs) + 1)],
     intervals |-> setInterval(ivs, t, TIMER_UPDATE_INTERVAL),
     ret       |-> None]

\* the idle branch returning this.time, like the running branch
toggleOn_returnsTime(tm, ivs, t) ==
    [timer     |-> [tm EXCEPT !.running = TRUE, !.start = Some(t),
                              !.interval = Some(Len(ivs) + 1)],
     intervals |-> setInterval(ivs, t, TIMER_UPDATE_INTERVAL),
     ret       |-> tm.time]

\* toggle(), timer found idle (lines 99-117); t is Date.now()
toggleOn(tm, ivs, t) ==
    [timer     |-> [tm EXCEPT !.running = TRUE, !.start = Some(t),
                              !.interval = Some(Len(ivs) + 1)],
     intervals |-> setInterval(ivs, t, TIMER_UPDATE_INTERVAL),
     ret       |-> None]

toggle(tm, ivs, t) == IF tm.running THEN toggleOff(tm, ivs) ELSE toggleOn(tm, ivs, t)

\* ------------------------------------------------------------ the session

SolveRecord(time, scramble) == [time |-> time, scramble |-> scramble]

generateScramble == "placeholder: U D2 L' R' L2"

compareSolves_descending(a, b) == NumSub(b.time.ms, a.time.ms)

\* the comparator handed to solves.sort
compareSolves(a, b) == NumSub(a.time.ms, b.time.ms)

RECURSIVE insertSorted_dropsTies(_, _)
insertSorted_dropsTies(sorted, x) ==
    IF sorted = << >> THEN <<x>>
    ELSE IF compareSolves(x, Head(sorted)).n < 0 THEN <<x>> \o sorted
    ELSE IF compareSolves(x, Head(sorted)).n = 0 THEN sorted
    ELSE <<Head(sorted)>> \o insertSorted_dropsTies(Tail(sorted), x)

RECURSIVE insertSorted(_, _)
insertSorted(sorted, x) ==
    IF sorted = << >> THEN <<x>>
    ELSE IF compareSolves(x, Head(sorted)).n < 0 THEN <<x>> \o sorted
    ELSE <<Head(sorted)>> \o insertSorted(Tail(sorted), x)

RECURSIVE sortInto(_, _, _)
sortInto(arr, i, acc) ==
    IF i > Len(arr) THEN acc ELSE sortInto(arr, i + 1, insertSorted(acc, arr[i]))

\* Array.prototype.sort with compareSolves (stable); the array itself is sorted
sort(arr) == sortInto(arr, 1, << >>)

RECURSIVE sumLoop(_, _, _)
sumLoop(arr, i, sum) ==
    IF i > Len(arr) THEN sum ELSE sumLoop(arr, i + 1, NumAdd(sum, arr[i].time.ms))

meanOf_dropsLast(sortedSolves) ==
    NumDiv(sumLoop(SubSeq(sortedSolves, 1, Len(sortedSolves) - 1), 1, Num(0)),
           Num(Len(sortedSolves)))

\* lines 236-240
meanOf(sortedSolves) == NumDiv(sumLoop(sortedSolves, 1, Num(0)), Num(Len(sortedSolves)))

medianOf_upperMiddle(sortedSolves) ==
    sortedSolves[parseInt(Rat(Len(sortedSolves), 2)) + 1].time.ms

\* lines 242-250 (JS indices are 0-based)
medianOf(sortedSolves) ==
    IF Len(sortedSolves) % 2 = 1
    THEN sortedSolves[parseInt(Rat(Len(sortedSolves), 2)) + 1].time.ms
    ELSE LET leftMiddle  == sortedSolves[parseInt(NumSub(Rat(Len(sortedSolves), 2), Num(1))) + 1].time.ms
             rightMiddle == sortedSolves[parseInt(Rat(Len(sortedSolves), 2)) + 1].time.ms
         IN  NumDiv(NumAdd(leftMiddle, rightMiddle), Num(2))

\* updateStats(): the sorted array, the four Times and the four slot texts
updateStats(sv, html) ==
    LET sortedSolves == sort(sv)
        worstTime == sortedSolves[Len(sortedSolves)].time.ms
        bestTime  == sortedSolves[1].time.ms
        mean      == meanOf(sortedSolves)
        median    == medianOf(sortedSolves)
    IN  [solves |-> sortedSolves,
         stats  |-> [mean |-> Time(mean), best |-> Time(bestTime),
                     median |-> Time(median), worst |-> Time(worstTime)],
         html   |-> [html EXCEPT !["mean"]      = toString(mean),
                                 !["besttime"]  = toString(bestTime),
                                 !["median"]    = toString(median),
                                 !["worsttime"] = toString(worstTime)]]

\* updateStats() run before the push; on an empty array it throws at line 233
addSolveRecord_statsBeforePush(solveRecord) ==
    /\ recorded' = Append(recorded, solveRecord)
    /\ IF solves = << >>
       THEN UNCHANGED <<solves, innerHTML, historytablebody, stats>>
       ELSE LET u == updateStats(solves, innerHTML)
            IN  /\ solves' = Append(u.solves, solveRecord)
                /\ stats' = Some(u.stats)
                /\ innerHTML' = u.html
                /\ historytablebody' = Append(historytablebody,
                       [number   |-> NumberToString(Len(solves) + 1),
                        time     |-> toString(solveRecord.time.ms),
                        scramble |-> solveRecord.scramble])

\* the row number taken before the push
addSolveRecord_numberBeforePush(solveRecord) ==
    LET u == updateStats(Append(solves, solveRecord), innerHTML)
    IN  /\ historytablebody' = Append(historytablebody,
               [number   |-> NumberToString(Len(solves)),
                time     |-> toString(solveRecord.time.ms),
                scramble |-> solveRecord.scramble])
        /\ solves' = u.solves
        /\ stats' = Some(u.stats)
        /\ innerHTML' = u.html
        /\ recorded' = Append(recorded, solveRecord)

\* the row's time written as the bare millisecond count
addSolveRecord_rawMilliseconds(solveRecord) ==
    LET u == updateStats(Append(solves, solveRecord), innerHTML)
    IN  /\ historytablebody' = Append(historytablebody,
               [number   |-> NumberToString(Len(solves) + 1),
                time     |-> NumberToString(Floor(solveRecord.time.ms)),
                scramble |-> solveRecord.scramble])
        /\ solves' = u.solves
        /\ stats' = Some(u.stats)
        /\ innerHTML' = u.html
        /\ recorded' = Append(recorded, solveRecord)

\* addSolveRecord(solveRecord)
addSolveRecord(solveRecord) ==
    LET pushed == Append(solves, solveRecord)
        newRow == [number   |-> NumberToString(Len(pushed)),
                   time     |-> toString(solveRecord.time.ms),
                   scramble |-> solveRecord.scramble]
        u      == updateStats(pushed, innerHTML)
    IN  /\ historytablebody' = Append(historytablebody, newRow)
        /\ solves' = u.solves
        /\ stats' = Some(u.stats)
        /\ innerHTML' = u.html
        /\ recorded' = Append(recorded, solveRecord)

\* ---------------------------------------------------------------- events

IsSpacebar(event) == event.keyCode = 32 \/ event.key = "Spacebar"

\* document.body.onkeyup, for a key released at instant t
onkeyup(event, t) ==
    /\ t >= now
    /\ ~(IsSpacebar(event) /\ ~timer.running /\ Len(intervals) >= MaxRuns)
    /\ now' = t
    /\ IF IsSpacebar(event)
       THEN LET r == toggle(timer, intervals, t)
            IN  /\ timer' = r.timer
                /\ intervals' = r.intervals
                /\ ret' = r.ret
                /\ toggles' = toggles + 1
                /\ stops' = IF timer.running THEN stops + 1 ELSE stops
                /\ IF r.ret # None
                   THEN addSolveRecord(SolveRecord(r.ret[1], generateScramble))
                   ELSE UNCHANGED sessionVars
       ELSE UNCHANGED <<timerVars, sessionVars>>
    /\ UNCHANGED fmtVars

refreshedTime_reversed(tm, t) == Time(NumSub(Num(tm.start[1]), Num(t)))

refreshedTime_accumulated(tm, t) ==
    Time(IF tm.time = None THEN Num(TIMER_UPDATE_INTERVAL)
         ELSE NumAdd(tm.time[1].ms, Num(TIMER_UPDATE_INTERVAL)))

\* lines 110-112: new Time(Date.now() - currentInstance.start), t being Date.now()
refreshedTime(tm, t) == Time(NumSub(Num(t), Num(tm.start[1])))

\* the function given to setInterval, run for handle h at instant t
intervalCallback(h, t) ==
    /\ h \in 1 .. Len(intervals)
    /\ intervals[h].active
    /\ t >= now
    /\ t >= intervals[h].due
    /\ now' = t
    /\ timer' = [timer EXCEPT !.time = Some(refreshedTime(timer, t))]
    /\ innerHTML' = [innerHTML EXCEPT !["timertext"] = toString(timer'.time[1].ms)]
    /\ intervals' = [intervals EXCEPT ![h].due = t + TIMER_UPDATE_INTERVAL]
    /\ UNCHANGED <<solves, historytablebody, stats, ret, toggles, stops, recorded>>
    /\ UNCHANGED fmtVars

\* the state once the script has run; the page's slots and table start empty
InitProgram ==
    /\ now = 0
    /\ timer = TimerConstructor
    /\ intervals = << >>
    /\ solves = << >>
    /\ innerHTML = [id \in SlotIds |-> << >>]
    /\ historytablebody = << >>
    /\ stats = None
    /\ ret = None
    /\ toggles = 0
    /\ stops = 0
    /\ recorded = << >>

Init ==
    /\ InitProgram
    /\ fmtTime = Time(Num(0))
    /\ fmtText = None

KeyUp == \E event \in KeyEvents, t \in Instants : onkeyup(event, t)

Refresh == \E h \in 1 .. MaxRuns, t \in Instants : intervalCallback(h, t)

Next == KeyUp \/ Refresh

Spec == Init /\ [][Next]_vars

\* ------------------------------------------- Time.toString on its own

SecondsSample == {0, 1, 2, 5, 9, 10, 12, 59}

MillisSample == {0, 1, 9, 10, 99, 100, 345, 999}

FmtInputs == {m * 60000 + sec * 1000 + r :
                  m \in 0 .. MaxMinutes, sec \in SecondsSample, r \in MillisSample}

FmtInit ==
    /\ InitProgram
    /\ fmtTime \in {Time(Num(ms)) : ms \in FmtInputs}
    /\ fmtText = None

\* fmtTime.toString()
FormatTime ==
    /\ fmtText = None
    /\ fmtText' = Some(toString(fmtTime.ms))
    /\ UNCHANGED <<now, timerVars, sessionVars, fmtTime>>

FmtNext == FormatTime

FmtSpec == FmtInit /\ [][FmtNext]_vars

\* ------------------------------------------------- vocabulary of the claims

IsPrefix(s, t) == Len(s) <= Len(t) /\ SubSeq(t, 1, Len(s)) = s

NumLess(a, b) == a.n * b.d < b.n * a.d

NumLeq(a, b) == ~NumLess(b, a)

NumMul(a, b) == Rat(a.n * b.n, a.d * b.d)

\* millisecond values of the solves performed so far, in solve order
RecordedMs == [i \in 1 .. Len(recorded) |-> recorded[i].time.ms]

\* the k-th smallest of the values of seq (k in 1 .. Len(seq)), by counting
KthSmallest(seq, k) ==
    CHOOSE v \in {seq[i] : i \in 1 .. Len(seq)} :
        /\ Cardinality({i \in 1 .. Len(seq) : NumLess(seq[i], v)}) < k
        /\ Cardinality({i \in 1 .. Len(seq) : NumLeq(seq[i], v)}) >= k

RECURSIVE SumOf(_)
SumOf(seq) == IF seq = << >> THEN Num(0) ELSE NumAdd(Head(seq), SumOf(Tail(seq)))

ActiveHandles == {h \in 1 .. Len(intervals) : intervals[h].active}

\* a step in which timer.toggle() was called
ToggleStep == toggles' = toggles + 1

\* a step in which a refresh callback ran
RefreshStep == \E h \in 1 .. Len(intervals) :
                   h <= Len(intervals') /\ intervals'[h].due # intervals[h].due

\* ------------------------------------------------------------------ claims

\* C1: every toggle() call flips `running`, and the call returns a Time exactly
\* when it found the timer running (it made the running -> idle transition),
\* whatever the number of refresh ticks since the start, zero included.
C1_ToggleAlternates ==
    [][ToggleStep =>
          /\ timer'.running = ~timer.running
          /\ (ret' # None) <=> timer.running]_vars

\* C2: the Time returned by a toggle() call that finds the timer running has
\* for milliseconds the instant of that call minus the start of the run.
C2_StopReturnsElapsed ==
    [][(ToggleStep /\ timer.running /\ ret' # None) =>
          ret'[1].ms = NumSub(Num(now'), Num(timer.start[1]))]_vars

\* C3: the number of recorded solves equals the number of running -> idle
\* transitions that have occurred.
C3_OneRecordPerStop == Len(solves) = stops

\* C4: the stored sequence before a record operation is a prefix of the stored
\* sequence after it; stored records are never reordered.
C4_RecordKeepsOrder == [][IsPrefix(solves, solves')]_vars

\* C5: exactly one refresh task is scheduled while running and none while
\* idle, every cancelled task was cancelled exactly once and a scheduled one
\* never, and while the timer is idle no step changes the timer text or the
\* timer's current time.
C5_RefreshInv ==
    /\ Cardinality(ActiveHandles) = (IF timer.running THEN 1 ELSE 0)
    /\ timer.running => timer.interval # None /\ ActiveHandles = {timer.interval[1]}
    /\ \A h \in 1 .. Len(intervals) :
           intervals[h].cleared = (IF intervals[h].active THEN 0 ELSE 1)

C5_RefreshOwnedWhileRunning ==
    /\ []C5_RefreshInv
    /\ [][~timer.running =>
             /\ ~RefreshStep
             /\ innerHTML'["timertext"] = innerHTML["timertext"]
             /\ timer'.time = timer.time]_vars

\* a run with a refresh tick has ended and a later run is in progress
C5_Witness ==
    /\ timer.running
    /\ Len(intervals) >= 2
    /\ intervals[1].cleared = 1
    /\ innerHTML["timertext"] # << >>

\* C6: once a solve is recorded, the best statistic is the minimum and the
\* worst statistic the maximum of the milliseconds of all solves recorded.
C6_BestWorst ==
    /\ (stats = None) <=> (recorded = << >>)
    /\ stats # None =>
          /\ stats[1].best.ms = KthSmallest(RecordedMs, 1)
          /\ stats[1].worst.ms = KthSmallest(RecordedMs, Len(recorded))
          /\ \A i \in 1 .. Len(recorded) :
                 /\ NumLeq(stats[1].best.ms, recorded[i].time.ms)
                 /\ NumLeq(recorded[i].time.ms, stats[1].worst.ms)
          /\ innerHTML["besttime"] = toString(KthSmallest(RecordedMs, 1))
          /\ innerHTML["worsttime"] = toString(KthSmallest(RecordedMs, Len(recorded)))

\* three solves recorded neither in ascending nor in descending order
C6_Witness ==
    /\ Len(recorded) = 3
    /\ NumLess(recorded[2].time.ms, recorded[1].time.ms)
    /\ NumLess(recorded[1].time.ms, recorded[3].time.ms)
    /\ stats # None
    /\ stats[1].best.ms = recorded[2].time.ms
    /\ stats[1].worst.ms = recorded[3].time.ms

\* C7: once a solve is recorded, the median statistic is the middle value of
\* the recorded milliseconds in ascending order when their number is odd, and
\* the average of the two central values when it is even.
C7_Median ==
    stats # None =>
        LET n == Len(recorded)
        IN  IF n % 2 = 1
            THEN stats[1].median.ms = KthSmallest(RecordedMs, (n + 1) \div 2)
            ELSE NumMul(stats[1].median.ms, Num(2)) =
                     NumAdd(KthSmallest(RecordedMs, n \div 2),
                            KthSmallest(RecordedMs, n \div 2 + 1))

\* two solves, the larger recorded first, whose average is not a whole number
C7_Witness ==
    /\ Len(recorded) = 2
    /\ NumLess(recorded[2].time.ms, recorded[1].time.ms)
    /\ stats # None
    /\ stats[1].median.ms.d = 2

\* C8: once a solve is recorded, mean * count = sum over all recorded solves.
C8_Mean ==
    stats # None =>
        NumMul(stats[1].mean.ms, Num(Len(recorded))) = SumOf(RecordedMs)

\* three solves whose mean is not a whole number
C8_Witness ==
    /\ Len(recorded) = 3
    /\ stats # None
    /\ stats[1].mean.ms.d = 3

\* reading a formatted time back

IndexOf(str, ch) ==
    IF \E i \in 1 .. Len(str) : str[i] = ch
    THEN CHOOSE i \in 1 .. Len(str) : str[i] = ch /\ \A j \in 1 .. i - 1 : str[j] # ch
    ELSE 0

IsDigits(str) == \A i \in 1 .. Len(str) : \E k \in 0 .. 9 : str[i] = Digit(k)

DigitValue(ch) == CHOOSE k \in 0 .. 9 : Digit(k) = ch

RECURSIVE ParseNat(_)
ParseNat(str) ==
    IF str = << >> THEN 0
    ELSE ParseNat(SubSeq(str, 1, Len(str) - 1)) * 10 + DigitValue(str[Len(str)])

\* C9: for a non-negative integer ms, toString shows a minutes field exactly
\* when ms >= 60000; its fields read back as minutes = floor(ms / 60000),
\* seconds = floor(ms / 1000) mod 60 and residual = ms - minutes * 60000 -
\* seconds * 1000, which add up to ms; the residual has width 3, and minutes and
\* seconds are padded to width 2 only when minutes are shown.
C9_Format ==
    fmtText # None =>
        LET ms      == Floor(fmtTime.ms)
            text    == fmtText[1]
            colon   == IndexOf(text, ":")
            dot     == IndexOf(text, ".")
            minStr  == SubSeq(text, 1, colon - 1)
            secStr  == SubSeq(text, colon + 1, dot - 1)
            resStr  == SubSeq(text, dot + 1, Len(text))
            minutes == ms \div 60000
            seconds == (ms \div 1000) % 60
        IN  /\ (colon > 0) <=> (ms >= 60000)
            /\ dot > colon
            /\ IsDigits(minStr) /\ IsDigits(secStr) /\ IsDigits(resStr)
            /\ ParseNat(minStr) = minutes
            /\ ParseNat(secStr) = seconds
            /\ ParseNat(resStr) = ms - minutes * 60000 - seconds * 1000
            /\ ParseNat(secStr) \in 0 .. 59
            /\ ParseNat(resStr) \in 0 .. 999
            /\ ParseNat(minStr) * 60000 + ParseNat(secStr) * 1000 + ParseNat(resStr) = ms
            /\ Len(resStr) = 3
            /\ colon > 0 =>
                   /\ Len(secStr) = 2
                   /\ Len(minStr) >= 2
                   /\ Len(minStr) > 2 => minStr[1] # "0"
            /\ colon = 0 =>
                   /\ Len(secStr) >= 1
                   /\ Len(secStr) > 1 => secStr[1] # "0"
            /\ ms = 0      => text = <<"0", ".", "0", "0", "0">>
            /\ ms = 12345  => text = <<"1", "2", ".", "3", "4", "5">>
            /\ ms = 62345  => text = <<"0", "1", ":", "0", "2", ".", "3", "4", "5">>
            /\ ms = 605000 => text = <<"1", "0", ":", "0", "5", ".", "0", "0", "0">>

\* 62345 ms has been formatted, as 01:02.345
C9_Witness ==
    /\ fmtTime = Time(Num(62345))
    /\ fmtText = Some(<<"0", "1", ":", "0", "2", ".", "3", "4", "5">>)

\* C10: startInstant is set if and only if `running` is true.
C10_StartSetIffRunning == (timer.start # None) <=> timer.running

\* C10 as amended: startInstant is set whenever the timer is running and is
\* unset exactly until the first toggle; a toggle that stops the timer leaves it set.
C10_StartSetOnceStarted ==
    /\ timer.running => timer.start # None
    /\ (timer.start = None) <=> (toggles = 0)

\* the timer has been stopped and startInstant is still set
C10_Witness ==
    /\ ~timer.running
    /\ stops >= 1
    /\ timer.start # None

\* a refresh callback has run since the start of the current run
TickedThisRun ==
    /\ timer.interval # None
    /\ intervals[timer.interval[1]].due > timer.start[1] + TIMER_UPDATE_INTERVAL

\* C11: within one run, with a non-decreasing clock, the elapsed value of a
\* refresh tick is at least that of every earlier tick of the run, and the
\* value the stop returns is at least that of every tick of the run.
C11_ElapsedMonotone ==
    [][(timer.running /\ TickedThisRun) =>
          /\ RefreshStep => NumLeq(timer.time[1].ms, timer'.time[1].ms)
          /\ ToggleStep => /\ ret' # None
                           /\ NumLeq(timer.time[1].ms, ret'[1].ms)]_vars

\* a run has been stopped after ticks at two different instants at least
C11_Witness ==
    /\ ~timer.running
    /\ stops >= 1
    /\ ret # None
    /\ NumLess(Num(TIMER_UPDATE_INTERVAL), ret[1].ms)
    /\ intervals[timer.interval[1]].due > timer.start[1] + 2 * TIMER_UPDATE_INTERVAL

\* C12: the statistics are never computed over an empty session: whenever
\* addSolveRecord has run, and whenever statistics exist, the record was stored
\* before they were computed, so at least one record is stored.
C12_StatsNeverOnEmpty ==
    /\ stats # None => Len(solves) >= 1
    /\ recorded # << >> => (stats # None /\ Len(solves) = Len(recorded))

\* the statistics of the first solve of the session
C12_Witness ==
    /\ Len(recorded) = 1
    /\ Len(solves) = 1
    /\ stats # None
    /\ stats[1].best = solves[1].time

IsNatural(q) == q.d = 1 /\ q.n >= 0

\* C13: every Time the program constructs (at a refresh tick and for best,
\* worst, mean and median) wraps a non-negative integer millisecond count.
C13_TimesAreNatural ==
    /\ timer.time # None => IsNatural(timer.time[1].ms)
    /\ stats # None =>
          /\ IsNatural(stats[1].best.ms)
          /\ IsNatural(stats[1].worst.ms)
          /\ IsNatural(stats[1].mean.ms)
          /\ IsNatural(stats[1].median.ms)

\* C13 as amended: the Times of a refresh tick, best and worst wrap non-negative
\* integers; mean and median wrap non-negative numbers that need not be whole:
\* twice the median and count times the mean are non-negative integers.
C13_TimesNonNegative ==
    /\ timer.time # None => IsNatural(timer.time[1].ms)
    /\ \A i \in 1 .. Len(solves) : IsNatural(solves[i].time.ms)
    /\ stats # None =>
          /\ IsNatural(stats[1].best.ms)
          /\ IsNatural(stats[1].worst.ms)
          /\ IsNatural(NumMul(stats[1].mean.ms, Num(Len(recorded))))
          /\ IsNatural(NumMul(stats[1].median.ms, Num(2)))

\* a session whose mean and median are both fractional
C13_Witness ==
    /\ stats # None
    /\ timer.time # None
    /\ stats[1].mean.ms.d > 1
    /\ stats[1].median.ms.d > 1

Count(seq, x) == Cardinality({i \in 1 .. Len(seq) : seq[i] = x})

\* C14: a stored solve record is never changed or lost: the stored records
\* are, as a multiset of (time, scramble) pairs, exactly the records appended
\* so far, and no step lowers the number of copies of any stored record.
C14_RecordsNeverMutated ==
    /\ [](/\ Len(solves) = Len(recorded)
          /\ \A i \in 1 .. Len(recorded) :
                 Count(solves, recorded[i]) = Count(recorded, recorded[i]))
    /\ [][\A i \in 1 .. Len(solves) :
              Count(solves', solves[i]) >= Count(solves, solves[i])]_vars

\* two solves are stored, sorted out of solve order, and a later run has
\* ticked to a time different from both
C14_Witness ==
    /\ Len(recorded) = 2
    /\ NumLess(recorded[2].time.ms, recorded[1].time.ms)
    /\ solves # recorded
    /\ timer.running
    /\ TickedThisRun
    /\ \A i \in 1 .. 2 : timer.time[1] # recorded[i].time

\* C15: the record count never decreases, the table has one row per stored
\* record, rows are only appended, and the k-th row carries the number k, the
\* formatted time and the scramble of the k-th solve recorded.
C15_TableInv ==
    /\ Len(historytablebody) = Len(solves)
    /\ \A k \in 1 .. Len(historytablebody) :
           /\ IsDigits(historytablebody[k].number)
           /\ ParseNat(historytablebody[k].number) = k
           /\ historytablebody[k].time = toString(recorded[k].time.ms)
           /\ historytablebody[k].scramble = recorded[k].scramble

C16_ReturnedTimeIsOfThisRun ==
    [][(ToggleStep /\ timer.running /\ ret' # None) =>
          \E t \in timer.start[1] .. now' :
              ret'[1].ms = NumSub(Num(t), Num(timer.start[1]))]_vars

\* the value shown by a formatted time below one minute, -1 for any other text
ReadBackMs(text) ==
    LET dot == IndexOf(text, ".")
    IN  IF dot > 1 /\ IndexOf(text, ":") = 0 /\ Len(text) = dot + 3
           /\ IsDigits(SubSeq(text, 1, dot - 1)) /\ IsDigits(SubSeq(text, dot + 1, Len(text)))
        THEN ParseNat(SubSeq(text, 1, dot - 1)) * 1000 + ParseNat(SubSeq(text, dot + 1, Len(text)))
        ELSE -1

\* C17: every refresh tick sets the timer's current time to now - start of the
\* current run, and the timer text to that value formatted, whatever the
\* number and lateness of the ticks before.
C17_TickFromWallClock ==
    [][RefreshStep =>
          /\ timer'.time = Some(Time(Num(now' - timer.start[1])))
          /\ ReadBackMs(innerHTML'["timertext"]) = now' - timer.start[1]]_vars

\* a second run whose latest tick came late, 25 ms after the start
C17_Witness ==
    /\ timer.running
    /\ Len(intervals) >= 2
    /\ TickedThisRun
    /\ timer.time = Some(Time(Num(25)))
    /\ now = timer.start[1] + 25
    /\ innerHTML["timertext"] = <<"0", ".", "0", "2", "5">>

StatSlots == {"mean", "besttime", "median", "worsttime"}

\* C19: a toggle that starts the timer and every refresh tick leave the stored
\* records, the history table and the four statistics slots as they were; a
\* refresh tick also leaves `running` and startInstant as they were.
C19_StartAndTickFrame ==
    [][((ToggleStep /\ ~timer.running) \/ RefreshStep) =>
          /\ solves' = solves
          /\ historytablebody' = historytablebody
          /\ \A id \in StatSlots : innerHTML'[id] = innerHTML[id]
          /\ RefreshStep => /\ timer'.running = timer.running
                            /\ timer'.start = timer.start]_vars

\* a timer restarted and ticking in a session that already holds a record
C19_Witness ==
    /\ timer.running
    /\ TickedThisRun
    /\ Len(solves) >= 1
    /\ innerHTML["mean"] # << >>

====
